---- MODULE Spec2Model ----
(***************************************************************************)
(* Model of whispers-of-self: the agent state and its operations           *)
(* (src/whispers/agents/base_agent.py), the three profile classes in both  *)
(* of their definitions (agents/personality_agents.py and the package      *)
(* agents/personalities/), the negotiator (negotiation/baseline.py), the   *)
(* Environment and the big-resource pair selection (environment/), the     *)
(* Simulation roster and day counter (simulation/simulation.py), and the   *)
(* snapshot and metrics helpers (snapshots/snapshot.py, metrics/).         *)
(*                                                                         *)
(* Numbers.  Python ints are unbounded and are modelled as TLA+ integers.  *)
(* The float strategy traits (request_multiplier, negotiation_demand,      *)
(* acceptance_threshold, greed_index), mutation_rate and the values of     *)
(* random.random()/random.uniform() are modelled in hundredths (0.7 is 70).*)
(* reputation is modelled in fixed point with RepScale units per 1.0 and   *)
(* truncating division.                                                    *)
(***************************************************************************)
EXTENDS Integers, Sequences, FiniteSets, TLC

VARIABLES
    module,      \* which definition of the profile classes the agent is an instance of
    state,       \* the agent's AgentState
    prev,        \* the AgentState the last operation was called on
    day_index,   \* Simulation._day_index
    op,          \* name of the last operation called
    arg,         \* its argument (amount, outcome or mutation_rate; 0 if it takes none)
    result,      \* what the last operation returned
    coopLog,     \* every outcome passed to update_reputation so far, in call order
    harvestCalls, \* number of receive_resources/add_resources calls so far
    partner,     \* the AgentState of the second agent of a negotiation
    prevPartner, \* the partner's AgentState when the last operation was called
    env,         \* the Environment
    prevEnv,     \* the Environment the last operation was called on
    batches,     \* number of times Environment.resources has been given a new list
    agents,      \* Simulation._agents: the roster, each entry an agent's id and AgentState
    prevAgents,  \* the roster when the last operation was called
    num_days,    \* Simulation._config.num_days
    stepCalls,   \* number of calls of Simulation.step made by the caller so far
    runCalls,    \* number of calls of Simulation.run so far
    heap,        \* the dicts and lists alive, by identity (sequence index)
    prevHeap,    \* the heap when the last operation was called
    sim_state,   \* the caller's state dict (identity)
    snapshot,    \* the Snapshot taken of it: metadata and state (identity; 0 if none)
    restored,    \* the dict restore_snapshot returned (identity; 0 if none)
    record,      \* the caller's metrics record (identity)
    daily,       \* MetricsBuffer.daily: identities of the logged dicts
    loggedValues, \* the value each record had when it was logged, in call order
    takenValue,  \* the value sim_state had when take_snapshot was called
    mutations,   \* number of mutations the caller has made on the dicts it holds
    run_seed,    \* the seed given to random.seed() at the start of both runs
    runA,        \* first run from that seed: its agents, its Environment, the
                 \* number of values taken from its random stream
    runB,        \* second run from the same seed
    returned,    \* for each Resource of env.resources, the sum of the values
                 \* collect_resource has returned for it
    generation   \* SpecLineage: how many reproduce calls lie between the first
                 \* agent and the agent state holds

simVars == <<agents, prevAgents, num_days, stepCalls, runCalls>>

twinVars == <<run_seed, runA, runB>>

storeVars == <<heap, prevHeap, sim_state, snapshot, restored, record, daily,
               loggedValues, takenValue, mutations>>

vars == <<module, state, prev, day_index, op, arg, result, coopLog, harvestCalls,
          partner, prevPartner, env, prevEnv, batches,
          agents, prevAgents, num_days, stepCalls, runCalls,
          heap, prevHeap, sim_state, snapshot, restored, record, daily,
          loggedValues, takenValue, mutations, run_seed, runA, runB, returned,
          generation>>

----------------------------------------------------------------------------
(* Bounds of the model *)

MaxReserve == 12      \* receive/add are not called once the reserve would pass this
MaxCalls == 2         \* Spec: calls per run that extend the record (see GrowthCalls)
MaxHarvestCalls == 12 \* SpecHarvest: receive/add calls per run
MaxCoopCalls == 22    \* SpecCoop: update_reputation calls per run
MaxMinority == 2      \* SpecCoop: occurrences of the rarer outcome per run
MaxBatches == 2       \* SpecEnv: spawn_resources calls and assignments of resources per run
MaxRoster == 4        \* SpecSim: agents in the roster
MaxSimCalls == 2      \* SpecSim: calls of step and run per run
MaxAgentCalls == 1    \* SpecSim: calls made on the agents of the roster per run
MaxDays == 2          \* SpecStore: log_day calls per run
MaxMutations == 2     \* SpecStore: mutations the caller makes on its dicts per run
MaxTwinAgents == 1    \* SpecTwin: agents built per run
MaxSpawns == 1        \* SpecTwin: spawn_resources calls per run
MaxGenerations == 3   \* SpecLineage: reproduce calls from the first agent on

(* Program constants *)

HarvestWindow == 10
CoopWindow == 20
RepScale == 1000000   \* a reputation of 1.0 in the fixed-point representation
DefaultDailyNeed == 3
DefaultReproductionReserve == 8
DefaultReproductionCost == 8
DefaultWidth == 20
DefaultHeight == 20
DefaultSpawnRate == 2500   \* resource_spawn_rate 25.0, hundredths
SpawnFloor == 5            \* the least number of resources spawn_resources makes
DefaultNumDays == 30       \* SimulationConfig.num_days

(* Input sets *)

Modules == {"personality_agents", "personalities"}
Profiles == {"altruist", "egoist", "pragmatist"}
\* <<daily_need, reproduction_reserve, reproduction_cost>> given to the constructor:
\* the dataclass defaults, and a configuration whose cost exceeds its threshold
Configs == {<<DefaultDailyNeed, DefaultReproductionReserve, DefaultReproductionCost>>,
            <<2, 3, 4>>}
Amounts == {-1, 0, 3, 8}
HarvestAmounts == {0, 1}
Rates == {0, 5, 100}          \* mutation_rate, hundredths
\* the random draws of one reproduce call, hundredths: the two random.random()
\* (the mutation decision, the choice of the other profile), then the noise for
\* request_multiplier (uniform(-0.1, 0.1)), negotiation_demand and
\* acceptance_threshold (uniform(-0.05, 0.05)) and greed_index (uniform(-0.1, 0.1))
RandomDraws == {<<0, 0, -10, -5, -5, -10>>, <<0, 50, 10, 5, 5, 10>>,
                <<50, 0, 10, -5, 5, -10>>, <<50, 50, -10, 5, -5, 10>>}

\* partner_demand, hundredths
PartnerDemands == {30, 50, 55, 60, 65, 70, 72, 75, 90}
\* partner_reputation, RepScale units
PartnerReputations == {(n * RepScale) \div 100 : n \in {0, 25, 50, 65, 75, 95, 100}}
\* the reputation an agent of SpecCoop is built with
CoopStartReputations == {0, RepScale \div 2, RepScale}
\* the reputations of the two agents handed to Negotiation.negotiate
StartReputations == {(n * RepScale) \div 100 : n \in {20, 50, 95}}
AcceptDraws == {5, 15, 50, 99}   \* random.random() of will_accept_offer, hundredths
UniformDraws == {0, 50, 100}     \* place of a random.uniform() value in its range
\* the random.random() values the two will_accept_offer calls of a negotiation see
NegotiationDraws == {5, 99}
ResourceSizes == {0, 7, 50}      \* resource_size

\* <<width, height, resource_spawn_rate>> given to Environment(), rate in hundredths
EnvConfigs == {<<0, 0, DefaultSpawnRate>>, <<2, 0, 100>>, <<2, 1, 0>>,
               <<1, 2, 250>>, <<1, 1, 600>>}
\* the lists of Resource(x, y, value), as <<x, y, value>>, assigned to
\* Environment.resources
ResourceLists == {<<>>,
                  << <<1, 1, 5>> >>,
                  << <<2, 2, 0>> >>,
                  << <<0, 0, 1>>, <<2, 0, 1>> >>,
                  << <<2, 0, 1>>, <<0, 0, 1>> >>,
                  << <<1, 1, 1>>, <<5, 5, 1>>, <<9, 9, 1>> >>}
AgentPositions == {<<1, 0>>, <<3, 3>>, <<7, 7>>}   \* <<agent_x, agent_y>>
SpawnSeeds == {0, 1, 2}   \* which sequence of random.randint() values a spawn sees

NumDays == {-1, 0, 2}     \* SimulationConfig(num_days=...)
\* the agents given to Simulation(agents=...), by profile
InitialRosters == {<<>>, <<"altruist", "egoist", "pragmatist">>}
\* the agents given to add_agents, by profile
NewAgentLists == {<<>>, <<"pragmatist">>, <<"altruist", "egoist">>}
SimAmounts == {2, 10}     \* amounts given to an agent of the roster

TotalResources == {0, 5, 20, 100}   \* calculate_request parameter total_resources
PopulationSizes == {0, 1, 3}        \* calculate_request parameter population_size
\* traits given to the constructor that lie outside the usual range:
\* <<request_multiplier, negotiation_demand, acceptance_threshold, greed_index>>
ExtremeTraits == {<<-50, -10, 30, 50>>, <<100, 28, 30, 50>>,
                  <<100, 72, 30, 50>>, <<300, 95, 30, 50>>}

\* the dicts the caller builds, as <<day, data>>: {"day": day, "data": data},
\* or {"day": day} when data is <<0>>
CallerDicts == {<<1, <<0>>>>, <<1, <<1, 2, 3>>>>, <<10, <<>>>>}
ListItems == {4}                   \* x of d[k].append(x)
IntItems == {7}                    \* n of d[k] = n
Keys == {"day", "agents"}          \* k of d[k] = n

Seeds == {0, 1, 2}        \* random.seed(...) at the start of a run
\* the values uuid.uuid4() can give; they come from os.urandom, not from the
\* stream random.seed() seeds
Uuids == {1, 2}
\* the Environment of a seeded run, as <<width, height, resource_spawn_rate>>
TwinEnvConfigs == {<<2, 1, 0>>, <<1, 2, 250>>}

----------------------------------------------------------------------------
(* Helpers *)

Abs(n) == IF n < 0 THEN -n ELSE n

Max(a, b) == IF a >= b THEN a ELSE b

RECURSIVE CountTrue(_)
CountTrue(s) ==
    IF s = <<>> THEN 0
    ELSE (IF Head(s) THEN 1 ELSE 0) + CountTrue(Tail(s))

\* list.pop(0)
Pop0(s) == Tail(s)

\* the last n elements of s (all of s if it has fewer)
LastN(s, n) ==
    IF Len(s) <= n THEN s ELSE SubSeq(s, Len(s) - n + 1, Len(s))

NoneResult == [kind |-> "None"]
BoolResult(b) == [kind |-> "bool", value |-> b]
AgentResult(a) == [kind |-> "agent", agent |-> a]

----------------------------------------------------------------------------
(* AgentState and the constructors *)

\* AgentState(...) with the dataclass defaults for everything not given
AgentState(type, rm, nd, at, gi, dn, rr, rc) ==
    [agent_type |-> type,
     age |-> 0,
     alive |-> TRUE,
     reputation |-> RepScale \div 2,
     harvest_history |-> <<>>,
     cooperation_history |-> <<>>,
     resources_reserve |-> 0,
     daily_need |-> dn,
     reproduction_reserve |-> rr,
     reproduction_cost |-> rc,
     request_multiplier |-> rm,
     negotiation_demand |-> nd,
     acceptance_threshold |-> at,
     greed_index |-> gi,
     newborn |-> FALSE]

\* the kwargs.setdefault values of each profile's __init__:
\* <<request_multiplier, negotiation_demand, acceptance_threshold, greed_index>>
DefaultTraits(p) ==
    CASE p = "altruist" -> <<70, 50, 30, 20>>
      [] p = "egoist" -> <<150, 70, 40, 80>>
      [] p = "pragmatist" -> <<100, 55, 35, 50>>

\* Altruist(), Egoist(), Pragmatist() with no arguments
DefaultAgent(p) ==
    AgentState(p, DefaultTraits(p)[1], DefaultTraits(p)[2], DefaultTraits(p)[3],
               DefaultTraits(p)[4], DefaultDailyNeed, DefaultReproductionReserve,
               DefaultReproductionCost)

\* P(request_multiplier=..., negotiation_demand=..., acceptance_threshold=..., greed_index=...)
TraitAgent(p, rm, nd, at, gi) ==
    AgentState(p, rm, nd, at, gi, DefaultDailyNeed, DefaultReproductionReserve,
               DefaultReproductionCost)

----------------------------------------------------------------------------
(* BaseAgent methods, as functions of the AgentState s *)

die(s) == [s EXCEPT !.alive = FALSE]

age_step(s) == [s EXCEPT !.age = @ + 1]

\* receive_resources that returns at once for a non-positive amount
receive_resources_skip(s, amount) ==
    IF amount <= 0
    THEN s
    ELSE [s EXCEPT !.resources_reserve = @ + amount,
                   !.harvest_history = Append(@, amount)]

receive_resources(s, amount) ==
    IF amount <= 0
    THEN [s EXCEPT !.harvest_history = Append(@, 0)]
    ELSE [s EXCEPT !.resources_reserve = @ + amount,
                   !.harvest_history = Append(@, amount)]

add_resources(s, amount) ==
    LET t == receive_resources(s, amount)
    IN  IF Len(t.harvest_history) > HarvestWindow
        THEN [t EXCEPT !.harvest_history = Pop0(@)]
        ELSE t

\* consume_resources without the clamp at zero
consume_resources_unclamped(s, amount) ==
    IF amount <= 0 THEN [state |-> s, ret |-> TRUE]
    ELSE [state |-> [s EXCEPT !.resources_reserve = @ - amount],
          ret |-> s.resources_reserve >= amount]

\* consume_resources that needs more than the amount in the reserve
consume_resources_strict(s, amount) ==
    IF amount <= 0 THEN [state |-> s, ret |-> TRUE]
    ELSE IF s.resources_reserve > amount
    THEN [state |-> [s EXCEPT !.resources_reserve = @ - amount], ret |-> TRUE]
    ELSE [state |-> [s EXCEPT !.resources_reserve = 0], ret |-> FALSE]

\* returns the new state and the boolean the method returns
consume_resources(s, amount) ==
    IF amount <= 0 THEN [state |-> s, ret |-> TRUE]
    ELSE IF s.resources_reserve >= amount
    THEN [state |-> [s EXCEPT !.resources_reserve = @ - amount], ret |-> TRUE]
    ELSE [state |-> [s EXCEPT !.resources_reserve = 0], ret |-> FALSE]

\* perform_daily_upkeep that also kills an agent holding exactly its daily need
perform_daily_upkeep_strict(s) ==
    IF s.resources_reserve <= s.daily_need THEN die(s) ELSE s

\* perform_daily_upkeep that assigns the flag instead of calling die()
perform_daily_upkeep_assign(s) ==
    [s EXCEPT !.alive = (s.resources_reserve >= s.daily_need)]

perform_daily_upkeep(s) ==
    IF s.resources_reserve < s.daily_need THEN die(s) ELSE s

\* update_reputation whose trim drops the newest entry (pop() for pop(0))
update_reputation_drop_newest(s, cooperation_success) ==
    LET h1 == Append(s.cooperation_history, cooperation_success)
        h == IF Len(h1) > CoopWindow THEN SubSeq(h1, 1, Len(h1) - 1) ELSE h1
        rate == (RepScale * CountTrue(h)) \div Len(h)
    IN  [s EXCEPT !.cooperation_history = h,
                  !.reputation = (9 * @ + rate) \div 10]

\* update_reputation that blends in the number of successes of the window
\* instead of their share
update_reputation_sum(s, cooperation_success) ==
    LET h1 == Append(s.cooperation_history, cooperation_success)
        h == IF Len(h1) > CoopWindow THEN Pop0(h1) ELSE h1
        rate == RepScale * CountTrue(h)
    IN  [s EXCEPT !.cooperation_history = h,
                  !.reputation = (9 * @ + rate) \div 10]

\* update_reputation that steps away from the cooperation rate
update_reputation_away(s, cooperation_success) ==
    LET h1 == Append(s.cooperation_history, cooperation_success)
        h == IF Len(h1) > CoopWindow THEN Pop0(h1) ELSE h1
        rate == (RepScale * CountTrue(h)) \div Len(h)
    IN  [s EXCEPT !.cooperation_history = h,
                  !.reputation = (11 * @ - rate) \div 10]

update_reputation(s, cooperation_success) ==
    LET h1 == Append(s.cooperation_history, cooperation_success)
        h == IF Len(h1) > CoopWindow THEN Pop0(h1) ELSE h1
        \* cooperation_rate = sum(h) / len(h); h is never empty here
        rate == (RepScale * CountTrue(h)) \div Len(h)
    IN  [s EXCEPT !.cooperation_history = h,
                  !.reputation = (9 * @ + rate) \div 10]

\* can_reproduce that forgets the alive flag
can_reproduce_ignoring_alive(s) ==
    s.resources_reserve >= s.reproduction_reserve

can_reproduce(s) ==
    s.alive /\ s.resources_reserve >= s.reproduction_reserve

charge_reproduction_cost(s) ==
    consume_resources(s, s.reproduction_cost).state

\* start_new_day that carries the surplus over the daily need into the new day
start_new_day_carry_over(s) ==
    [s EXCEPT !.resources_reserve =
        IF @ > s.daily_need THEN @ - s.daily_need ELSE 0]

start_new_day(s) == [s EXCEPT !.resources_reserve = 0]

----------------------------------------------------------------------------
(* reproduce of the profile classes *)

\* the class built when the second draw is below 0.5, and the one built otherwise
MutationTargets(p) ==
    CASE p = "altruist" -> <<"pragmatist", "egoist">>
      [] p = "egoist" -> <<"pragmatist", "altruist">>
      [] p = "pragmatist" -> <<"altruist", "egoist">>

\* MakeOffspring with the mutation test r1 <= mutation_rate
MakeOffspring_inclusive(s, mutation_rate, r1, r2, n1, n2, n3, n4) ==
    IF r1 <= mutation_rate
    THEN IF r2 < 50
         THEN DefaultAgent(MutationTargets(s.agent_type)[1])
         ELSE DefaultAgent(MutationTargets(s.agent_type)[2])
    ELSE TraitAgent(s.agent_type,
                    s.request_multiplier + n1,
                    s.negotiation_demand + n2,
                    s.acceptance_threshold + n3,
                    s.greed_index + n4)

\* the offspring built by reproduce: r1, r2 are the random.random() draws,
\* n1..n4 the random.uniform() draws
MakeOffspring(s, mutation_rate, r1, r2, n1, n2, n3, n4) ==
    IF r1 < mutation_rate
    THEN IF r2 < 50
         THEN DefaultAgent(MutationTargets(s.agent_type)[1])
         ELSE DefaultAgent(MutationTargets(s.agent_type)[2])
    ELSE TraitAgent(s.agent_type,
                    s.request_multiplier + n1,
                    s.negotiation_demand + n2,
                    s.acceptance_threshold + n3,
                    s.greed_index + n4)

\* agents/personalities/{altruist,egoist,pragmatist}.py
reproduce_personalities(s, mutation_rate, r1, r2, n1, n2, n3, n4) ==
    IF ~can_reproduce(s)
    THEN [state |-> s, ret |-> NoneResult]
    ELSE [state |-> charge_reproduction_cost(s),
          ret |-> AgentResult(MakeOffspring(s, mutation_rate, r1, r2, n1, n2, n3, n4))]

\* agents/personality_agents.py: no eligibility check, no charge
reproduce_personality_agents(s, mutation_rate, r1, r2, n1, n2, n3, n4) ==
    [state |-> s,
     ret |-> AgentResult(MakeOffspring(s, mutation_rate, r1, r2, n1, n2, n3, n4))]

reproduce(m, s, mutation_rate, r1, r2, n1, n2, n3, n4) ==
    IF m = "personalities"
    THEN reproduce_personalities(s, mutation_rate, r1, r2, n1, n2, n3, n4)
    ELSE reproduce_personality_agents(s, mutation_rate, r1, r2, n1, n2, n3, n4)

----------------------------------------------------------------------------
(* negotiate_demand and will_accept_offer of the profile classes           *)
(* (agents/personality_agents.py).  partner_demand and the returned demand *)
(* are in hundredths, partner_reputation in RepScale units; u is the place *)
(* of the random.uniform() value in its range (0 the low end, 100 the high *)
(* end), r the random.random() value in hundredths.                        *)

\* partner_reputation > n/10
RepAbove(partner_reputation, n) == 10 * partner_reputation > n * RepScale

\* partner_reputation < n/10
RepBelow(partner_reputation, n) == 10 * partner_reputation < n * RepScale

\* random.uniform(lo, hi)
Uniform(lo, hi, u) == lo + ((hi - lo) * u) \div 100

\* max(lo, min(hi, x))
Clamp(lo, hi, x) == IF x > hi THEN hi ELSE IF x < lo THEN lo ELSE x

Altruist_negotiate_demand(s, partner_reputation, u) ==
    LET adjustment == IF RepAbove(partner_reputation, 8)
                      THEN Uniform(-5, 0, u)
                      ELSE Uniform(-2, 2, u)
    IN  Clamp(30, 70, s.negotiation_demand + adjustment)

Egoist_negotiate_demand(s, partner_reputation, u) ==
    LET adjustment == IF RepBelow(partner_reputation, 4) THEN Uniform(5, 15, u)
                      ELSE IF RepAbove(partner_reputation, 8) THEN Uniform(-5, 5, u)
                      ELSE Uniform(-2, 8, u)
    IN  Clamp(50, 90, s.negotiation_demand + adjustment)

Pragmatist_negotiate_demand(s, partner_reputation, u) ==
    LET adjustment == IF RepBelow(partner_reputation, 3) THEN Uniform(5, 10, u)
                      ELSE IF RepAbove(partner_reputation, 7) THEN Uniform(-5, 5, u)
                      ELSE Uniform(-3, 3, u)
    IN  Clamp(40, 70, s.negotiation_demand + adjustment)

\* negotiate_demand whose Egoist result is not held below 0.9
negotiate_demand_uncapped(s, partner_reputation, u) ==
    CASE s.agent_type = "altruist" -> Altruist_negotiate_demand(s, partner_reputation, u)
      [] s.agent_type = "egoist" ->
            LET adjustment == IF RepBelow(partner_reputation, 4) THEN Uniform(5, 15, u)
                              ELSE IF RepAbove(partner_reputation, 8)
                              THEN Uniform(-5, 5, u)
                              ELSE Uniform(-2, 8, u)
            IN  IF s.negotiation_demand + adjustment < 50 THEN 50
                ELSE s.negotiation_demand + adjustment
      [] s.agent_type = "pragmatist" -> Pragmatist_negotiate_demand(s, partner_reputation, u)

negotiate_demand(s, partner_reputation, u) ==
    CASE s.agent_type = "altruist" -> Altruist_negotiate_demand(s, partner_reputation, u)
      [] s.agent_type = "egoist" -> Egoist_negotiate_demand(s, partner_reputation, u)
      [] s.agent_type = "pragmatist" -> Pragmatist_negotiate_demand(s, partner_reputation, u)

\* my_share >= acceptance_threshold * n/10
ShareAtLeast(my_share, s, n) == 10 * my_share >= n * s.acceptance_threshold

Altruist_will_accept_offer(s, partner_demand, partner_reputation, r) ==
    LET my_share == 100 - partner_demand
    IN  IF my_share >= s.acceptance_threshold THEN TRUE
        ELSE IF RepAbove(partner_reputation, 7) /\ ShareAtLeast(my_share, s, 8)
        THEN r < 30
        ELSE FALSE

Egoist_will_accept_offer(s, partner_demand, partner_reputation, r) ==
    LET my_share == 100 - partner_demand
    IN  IF my_share >= s.acceptance_threshold THEN TRUE
        ELSE IF RepAbove(partner_reputation, 9) /\ ShareAtLeast(my_share, s, 9)
        THEN r < 10
        ELSE FALSE

Pragmatist_will_accept_offer(s, partner_demand, partner_reputation, r) ==
    LET my_share == 100 - partner_demand
    IN  IF my_share >= s.acceptance_threshold THEN TRUE
        ELSE IF RepAbove(partner_reputation, 6)
        THEN (IF ShareAtLeast(my_share, s, 8) THEN r < 60 ELSE FALSE)
        ELSE IF RepBelow(partner_reputation, 3)
        THEN (IF ShareAtLeast(my_share, s, 12) THEN r < 20 ELSE FALSE)
        ELSE FALSE

\* will_accept_offer whose Altruist accepts outright only a share above the threshold
will_accept_offer_strict(s, partner_demand, partner_reputation, r) ==
    CASE s.agent_type = "altruist" ->
            \/ 100 - partner_demand > s.acceptance_threshold
            \/ /\ RepAbove(partner_reputation, 7)
               /\ ShareAtLeast(100 - partner_demand, s, 8)
               /\ r < 30
      [] s.agent_type = "egoist" ->
            Egoist_will_accept_offer(s, partner_demand, partner_reputation, r)
      [] s.agent_type = "pragmatist" ->
            Pragmatist_will_accept_offer(s, partner_demand, partner_reputation, r)

will_accept_offer(s, partner_demand, partner_reputation, r) ==
    CASE s.agent_type = "altruist" ->
            Altruist_will_accept_offer(s, partner_demand, partner_reputation, r)
      [] s.agent_type = "egoist" ->
            Egoist_will_accept_offer(s, partner_demand, partner_reputation, r)
      [] s.agent_type = "pragmatist" ->
            Pragmatist_will_accept_offer(s, partner_demand, partner_reputation, r)

----------------------------------------------------------------------------
(* calculate_request.  The classes of agents/personality_agents.py define   *)
(* it; the classes of the package agents/personalities/ (the ones the       *)
(* package agents exports) do not, and BaseAgent does not either, so the     *)
(* call raises AttributeError on them.                                      *)

\* int(n / d) for d > 0: truncation towards zero
IntOfQuotient(n, d) == IF n >= 0 THEN n \div d ELSE -((-n) \div d)

\* max(population_size, 1), max(1, base_request + variation)
AtLeastOne(n) == IF n >= 1 THEN n ELSE 1

\* random.randint(lo, hi) of the profile's calculate_request, as <<lo, hi>>
RequestVariation(p) ==
    CASE p = "altruist" -> <<-1, 1>>
      [] p = "egoist" -> <<-2, 3>>
      [] p = "pragmatist" -> <<-1, 2>>

\* Altruist.calculate_request and Egoist.calculate_request (the same but for the
\* variation they are given): int(fair_share * request_multiplier) + variation
Plain_calculate_request(s, total_resources, population_size, variation) ==
    LET base_request == IntOfQuotient(total_resources * s.request_multiplier,
                                      100 * AtLeastOne(population_size))
    IN  AtLeastOne(base_request + variation)

\* Pragmatist.calculate_request: the multiplier is scaled by 1.2 when resources
\* are abundant and by 0.8 when they are scarce
Pragmatist_calculate_request(s, total_resources, population_size, variation) ==
    LET tenths == IF total_resources > population_size * 10 THEN 12
                  ELSE IF total_resources < population_size * 3 THEN 8
                  ELSE 10
        base_request == IntOfQuotient(total_resources * s.request_multiplier * tenths,
                                      1000 * AtLeastOne(population_size))
    IN  AtLeastOne(base_request + variation)

\* int(round(n / 100)): Python rounds a tie to the even neighbour
RoundOfHundredths(n) ==
    LET q == n \div 100
        r == n % 100
    IN  IF r > 50 THEN q + 1
        ELSE IF r < 50 THEN q
        ELSE IF q % 2 = 0 THEN q ELSE q + 1

\* desired_intake_today that truncates the product instead of rounding it
desired_intake_today_truncating(s) ==
    Max(s.daily_need, IntOfQuotient(s.daily_need * s.request_multiplier, 100))

\* BaseAgent.desired_intake_today:
\* max(daily_need, int(round(daily_need * request_multiplier)))
desired_intake_today(s) ==
    Max(s.daily_need, RoundOfHundredths(s.daily_need * s.request_multiplier))

calculate_request(m, s, total_resources, population_size, variation) ==
    IF m = "personalities"
    THEN [kind |-> "raise", exception |-> "AttributeError"]
    ELSE IF s.agent_type = "pragmatist"
    THEN [kind |-> "int",
          value |-> Pragmatist_calculate_request(s, total_resources,
                                                 population_size, variation)]
    ELSE [kind |-> "int",
          value |-> Plain_calculate_request(s, total_resources,
                                            population_size, variation)]

----------------------------------------------------------------------------
(* Snapshots and metrics (snapshots/snapshot.py, metrics/__init__.py).     *)
(* Dicts and lists are objects with identity: the heap is the sequence of  *)
(* the objects alive and an identity is an index into it.  A dict's items  *)
(* map a key to an int or to the identity of a list.                       *)

IntValue(n) == [ref |-> FALSE, v |-> n]
RefValue(a) == [ref |-> TRUE, v |-> a]
DictObject(items) == [kind |-> "dict", items |-> items]
ListObject(items) == [kind |-> "list", items |-> items]

\* the value of the dict at identity a, nested lists included (== of Python)
ValueOf(h, a) ==
    [k \in DOMAIN h[a].items |->
        IF h[a].items[k].ref
        THEN [list |-> TRUE, v |-> h[h[a].items[k].v].items]
        ELSE [list |-> FALSE, v |-> <<h[a].items[k].v>>]]

\* dict(d): a new dict with the items of d; a list inside d is the same object
\* in the copy
dict(h, a) == [heap |-> Append(h, DictObject(h[a].items)), ret |-> Len(h) + 1]

\* take_snapshot(sim_state): Snapshot(metadata={}, state=dict(sim_state))
take_snapshot(h, s) ==
    [heap |-> dict(h, s).heap, ret |-> [metadata |-> <<>>, state |-> dict(h, s).ret]]

\* restore_snapshot(snapshot): dict(snapshot.state)
restore_snapshot(h, snap) == dict(h, snap.state)

\* MetricsBuffer.log_day(record): self.daily.append(dict(record))
log_day(h, d, r) == [heap |-> dict(h, r).heap, daily |-> Append(d, dict(h, r).ret)]

\* MetricsBuffer.finalize(): {"daily": list(self.daily), "summary": {}}
finalize(h, d) == [kind |-> "dict", daily |-> [i \in 1..Len(d) |-> ValueOf(h, d[i])],
                   summary |-> <<>>]

\* d[k].append(x) by the holder of the dict at identity a
list_append(h, a, k, x) ==
    [h EXCEPT ![h[a].items[k].v].items = Append(@, x)]

\* d[k] = n by the holder of the dict at identity a
set_item(h, a, k, n) ==
    [h EXCEPT ![a].items = [j \in DOMAIN @ \cup {k} |-> IF j = k THEN IntValue(n) ELSE @[j]]]

----------------------------------------------------------------------------
(* Negotiation (negotiation/baseline.py) *)

TupleResult(share_a, share_b, success) ==
    [kind |-> "tuple", share_a |-> share_a, share_b |-> share_b, success |-> success]

\* negotiate that always splits the pool evenly and reports success
negotiate_even_split(a, b, resource_size) ==
    [a |-> a, b |-> b,
     ret |-> TupleResult(resource_size \div 2, resource_size \div 2, TRUE)]

\* negotiate that gives each side the share of the pool it demands
negotiate_by_demands(a, b, resource_size) ==
    [a |-> a, b |-> b,
     ret |-> TupleResult((resource_size * negotiate_demand(a, b.reputation, 50)) \div 100,
                         (resource_size * negotiate_demand(b, a.reputation, 50)) \div 100,
                         TRUE)]

\* Negotiation.negotiate: the two agents after the call and the returned tuple
negotiate(a, b, resource_size) ==
    [a |-> a, b |-> b, ret |-> TupleResult(0, 0, FALSE)]

----------------------------------------------------------------------------
(* Resource and Environment (environment/environment.py).  A resource is   *)
(* named by its place in Environment.resources; the field born records     *)
(* which assignment of the list created the object, so that two resources  *)
(* with equal fields made by different calls are told apart.               *)

IntResult(v) == [kind |-> "int", value |-> v]
ResourceResult(i) == [kind |-> "resource", index |-> i]
RaiseResult(e) == [kind |-> "raise", exception |-> e]

\* Resource(x, y, value)
Resource(x, y, value, born) ==
    [x |-> x, y |-> y, value |-> value, collected |-> FALSE, born |-> born]

\* Environment(width, height, resource_spawn_rate); the rate is in hundredths
Environment(width, height, resource_spawn_rate) ==
    [width |-> width, height |-> height,
     resource_spawn_rate |-> resource_spawn_rate, resources |-> <<>>]

\* int(n / 100): truncation towards zero
IntOfHundredths(n) == IF n >= 0 THEN n \div 100 ELSE -((-n) \div 100)

target_resources(e) == IntOfHundredths(e.resource_spawn_rate * e.width * e.height)

min_resources(e) == Max(SpawnFloor, target_resources(e))

\* random.randint(lo, hi) for lo <= hi: the draw k picks a value of lo..hi
RandInt(lo, hi, k) == lo + (k % (hi - lo + 1))

\* the Resource made by the i-th iteration of the loop of spawn_resources
SpawnedResource(x_hi, y_hi, seed, i, born) ==
    Resource(RandInt(0, x_hi, seed + i), RandInt(0, y_hi, seed * i + i \div 2), 1, born)

\* spawn_resources drawing coordinates from 0..width and 0..height
spawn_resources_inclusive(e, seed, born) ==
    IF e.width - 1 < 0 \/ e.height - 1 < 0
    THEN [env |-> [e EXCEPT !.resources = <<>>], ret |-> RaiseResult("ValueError")]
    ELSE [env |-> [e EXCEPT !.resources =
                      [i \in 1..min_resources(e) |->
                          SpawnedResource(e.width, e.height, seed, i, born)]],
          ret |-> NoneResult]

\* spawn_resources: the list is emptied first; min_resources is at least 1, so the
\* loop body runs, and random.randint(0, -1) raises ValueError in its first
\* iteration when width or height is below 1
spawn_resources(e, seed, born) ==
    IF e.width - 1 < 0 \/ e.height - 1 < 0
    THEN [env |-> [e EXCEPT !.resources = <<>>], ret |-> RaiseResult("ValueError")]
    ELSE [env |-> [e EXCEPT !.resources =
                      [i \in 1..min_resources(e) |->
                          SpawnedResource(e.width - 1, e.height - 1, seed, i, born)]],
          ret |-> NoneResult]

get_distance(x1, y1, x2, y2) == Abs(x2 - x1) + Abs(y2 - y1)

\* the key of min(): abs(r.x - agent_x) + abs(r.y - agent_y)
DistanceTo(e, i, agent_x, agent_y) ==
    Abs(e.resources[i].x - agent_x) + Abs(e.resources[i].y - agent_y)

\* [r for r in self.resources if not r.collected], as places in the list
Available(e) ==
    SelectSeq([i \in 1..Len(e.resources) |-> i], LAMBDA i : ~e.resources[i].collected)

\* min(available, key): the scan keeps the first element and replaces it only by
\* a later one with a strictly smaller key (replace_on_tie makes it keep the last)
RECURSIVE MinScan(_, _, _, _, _, _)
MinScan(e, rest, best, agent_x, agent_y, replace_on_tie) ==
    IF rest = <<>> THEN best
    ELSE LET d == DistanceTo(e, Head(rest), agent_x, agent_y)
             b == DistanceTo(e, best, agent_x, agent_y)
         IN  IF d < b \/ (replace_on_tie /\ d = b)
             THEN MinScan(e, Tail(rest), Head(rest), agent_x, agent_y, replace_on_tie)
             ELSE MinScan(e, Tail(rest), best, agent_x, agent_y, replace_on_tie)

\* get_closest_resource that scans every resource, collected or not
get_closest_resource_unfiltered(e, agent_x, agent_y) ==
    IF e.resources = <<>> THEN NoneResult
    ELSE ResourceResult(MinScan(e, [i \in 1..(Len(e.resources) - 1) |-> i + 1], 1,
                                agent_x, agent_y, FALSE))

\* get_closest_resource that keeps the last of several closest resources
get_closest_resource_last_match(e, agent_x, agent_y) ==
    LET available == Available(e)
    IN  IF available = <<>> THEN NoneResult
        ELSE ResourceResult(MinScan(e, Tail(available), Head(available),
                                    agent_x, agent_y, TRUE))

get_closest_resource(e, agent_x, agent_y) ==
    LET available == Available(e)
    IN  IF available = <<>> THEN NoneResult
        ELSE ResourceResult(MinScan(e, Tail(available), Head(available),
                                    agent_x, agent_y, FALSE))

\* collect_resource(resource) for the resource at place i: the environment after
\* the call and the returned value
\* collect_resource that returns the value of a collected resource again
collect_resource_again(e, i) ==
    [env |-> [e EXCEPT !.resources[i].collected = TRUE],
     ret |-> IntResult(e.resources[i].value)]

collect_resource(e, i) ==
    IF e.resources[i].collected
    THEN [env |-> e, ret |-> IntResult(0)]
    ELSE [env |-> [e EXCEPT !.resources[i].collected = TRUE],
          ret |-> IntResult(e.resources[i].value)]

----------------------------------------------------------------------------
(* Simulation (simulation/simulation.py).  A Simulation is its roster and   *)
(* its day counter; an entry of the roster is an agent: its id and state.   *)

\* an agent object: AgentState.id and the rest of the AgentState
Agent(id, s) == [id |-> id, state |-> s]

\* step that drops the dead agents from the roster
step_cull(roster, day) ==
    [agents |-> SelectSeq(roster, LAMBDA a : a.state.alive), day_index |-> day + 1]

\* Simulation.step for a roster and a day counter
step(roster, day) == [agents |-> roster, day_index |-> day + 1]

\* Simulation.run: for _ in range(n): self.step()
RECURSIVE run(_, _, _)
run(roster, day, n) ==
    IF n <= 0 THEN [agents |-> roster, day_index |-> day]
    ELSE run(step(roster, day).agents, step(roster, day).day_index, n - 1)

\* Simulation.add_agents: the new agents are appended in order
add_agents(roster, new_agents) == roster \o new_agents

\* BigResourceEnvironment.select_pair(agents): None for fewer than two agents,
\* otherwise the first two of the sequence
select_pair(roster) ==
    IF Len(roster) < 2 THEN NoneResult
    ELSE [kind |-> "pair", first |-> roster[1], second |-> roster[2]]

----------------------------------------------------------------------------
(* Initial states *)

\* Simulation(): no agents, the default configuration, day 0
SimulationIdle ==
    /\ agents = <<>>
    /\ prevAgents = <<>>
    /\ num_days = DefaultNumDays
    /\ stepCalls = 0
    /\ runCalls = 0


\* one run: no agent built, an Environment, nothing drawn from the stream
Run(e) == [agents |-> <<>>, env |-> e, drawn |-> 0]

TwinIdle ==
    /\ run_seed = 0
    /\ runA = Run(Environment(DefaultWidth, DefaultHeight, DefaultSpawnRate))
    /\ runB = runA

\* no dict built, no snapshot taken, an empty MetricsBuffer
NoSnapshot == [metadata |-> <<>>, state |-> 0]

StoreIdle ==
    /\ heap = <<>>
    /\ prevHeap = <<>>
    /\ sim_state = 0
    /\ snapshot = NoSnapshot
    /\ restored = 0
    /\ record = 0
    /\ daily = <<>>
    /\ loggedValues = <<>>
    /\ takenValue = <<>>
    /\ mutations = 0

\* the heap after the caller has built the dict c of CallerDicts on heap h
CallerDict(h, c) ==
    IF c[2] = <<0>>
    THEN [heap |-> Append(h, DictObject([k \in {"day"} |-> IntValue(c[1])])),
          ret |-> Len(h) + 1]
    ELSE [heap |-> h \o <<ListObject(c[2]),
                            DictObject([k \in {"day", "data"} |->
                                IF k = "day" THEN IntValue(c[1])
                                ELSE RefValue(Len(h) + 1)])>>,
          ret |-> Len(h) + 2]

\* the caller holds a state dict and a metrics record; MetricsBuffer() is empty
InitStore ==
    /\ module = "personality_agents"
    /\ state = DefaultAgent("altruist")
    /\ prev = state
    /\ day_index = 0
    /\ op = "init"
    /\ arg = 0
    /\ result = NoneResult
    /\ coopLog = <<>>
    /\ harvestCalls = 0
    /\ partner = DefaultAgent("altruist")
    /\ prevPartner = partner
    /\ env = Environment(DefaultWidth, DefaultHeight, DefaultSpawnRate)
    /\ prevEnv = env
    /\ batches = 0
    /\ SimulationIdle
    /\ \E s \in CallerDicts, r \in CallerDicts :
          /\ heap = CallerDict(CallerDict(<<>>, s).heap, r).heap
          /\ sim_state = CallerDict(<<>>, s).ret
          /\ record = CallerDict(CallerDict(<<>>, s).heap, r).ret
    /\ prevHeap = heap
    /\ snapshot = NoSnapshot
    /\ restored = 0
    /\ daily = <<>>
    /\ loggedValues = <<>>
    /\ takenValue = <<>>
    /\ mutations = 0
    /\ TwinIdle
    /\ generation = 0
    /\ returned = <<>>

\* random.seed(s) and Environment(...) at the start of both runs
InitTwin ==
    /\ module = "personality_agents"
    /\ state = DefaultAgent("altruist")
    /\ prev = state
    /\ day_index = 0
    /\ op = "init"
    /\ arg = 0
    /\ result = NoneResult
    /\ coopLog = <<>>
    /\ harvestCalls = 0
    /\ partner = DefaultAgent("altruist")
    /\ prevPartner = partner
    /\ env = Environment(DefaultWidth, DefaultHeight, DefaultSpawnRate)
    /\ prevEnv = env
    /\ batches = 0
    /\ SimulationIdle
    /\ StoreIdle
    /\ returned = <<>>
    /\ run_seed \in Seeds
    /\ \E c \in TwinEnvConfigs : runA = Run(Environment(c[1], c[2], c[3]))
    /\ runB = runA
    /\ generation = 0

\* P() of either module, the first agent of a line of descent
InitLineage ==
    /\ module \in Modules
    /\ \E p \in Profiles : state = DefaultAgent(p)
    /\ prev = state
    /\ day_index = 0
    /\ op = "init"
    /\ arg = 0
    /\ result = NoneResult
    /\ coopLog = <<>>
    /\ harvestCalls = 0
    /\ partner = DefaultAgent("altruist")
    /\ prevPartner = partner
    /\ env = Environment(DefaultWidth, DefaultHeight, DefaultSpawnRate)
    /\ prevEnv = env
    /\ batches = 0
    /\ SimulationIdle
    /\ StoreIdle
    /\ TwinIdle
    /\ returned = <<>>
    /\ generation = 0

\* P(daily_need=..., reproduction_reserve=..., reproduction_cost=...) of either module
Init ==
    /\ module \in Modules
    /\ \E p \in Profiles, c \in Configs :
          state = AgentState(p, DefaultTraits(p)[1], DefaultTraits(p)[2],
                             DefaultTraits(p)[3], DefaultTraits(p)[4],
                             c[1], c[2], c[3])
    /\ prev = state
    /\ day_index = 0
    /\ op = "init"
    /\ arg = 0
    /\ result = NoneResult
    /\ coopLog = <<>>
    /\ harvestCalls = 0
    /\ partner = DefaultAgent("altruist")
    /\ prevPartner = partner
    /\ env = Environment(DefaultWidth, DefaultHeight, DefaultSpawnRate)
    /\ prevEnv = env
    /\ batches = 0
    /\ SimulationIdle
    /\ StoreIdle
    /\ TwinIdle
    /\ generation = 0
    /\ returned = <<>>

\* P() of either module
InitDefault ==
    /\ module \in Modules
    /\ \E p \in Profiles : state = DefaultAgent(p)
    /\ prev = state
    /\ day_index = 0
    /\ op = "init"
    /\ arg = 0
    /\ result = NoneResult
    /\ coopLog = <<>>
    /\ harvestCalls = 0
    /\ partner = DefaultAgent("altruist")
    /\ prevPartner = partner
    /\ env = Environment(DefaultWidth, DefaultHeight, DefaultSpawnRate)
    /\ prevEnv = env
    /\ batches = 0
    /\ SimulationIdle
    /\ StoreIdle
    /\ TwinIdle
    /\ generation = 0
    /\ returned = <<>>

\* P(reputation=...) of either module, for a reputation of 0, 0.5 or 1
InitCoop ==
    /\ module \in Modules
    /\ \E p \in Profiles, rep \in CoopStartReputations :
          state = [DefaultAgent(p) EXCEPT !.reputation = rep]
    /\ prev = state
    /\ day_index = 0
    /\ op = "init"
    /\ arg = 0
    /\ result = NoneResult
    /\ coopLog = <<>>
    /\ harvestCalls = 0
    /\ partner = DefaultAgent("altruist")
    /\ prevPartner = partner
    /\ env = Environment(DefaultWidth, DefaultHeight, DefaultSpawnRate)
    /\ prevEnv = env
    /\ batches = 0
    /\ SimulationIdle
    /\ StoreIdle
    /\ TwinIdle
    /\ generation = 0
    /\ returned = <<>>

\* Environment(width, height, resource_spawn_rate)
InitEnv ==
    /\ module = "personality_agents"
    /\ state = DefaultAgent("altruist")
    /\ prev = state
    /\ day_index = 0
    /\ op = "init"
    /\ arg = 0
    /\ result = NoneResult
    /\ coopLog = <<>>
    /\ harvestCalls = 0
    /\ partner = DefaultAgent("altruist")
    /\ prevPartner = partner
    /\ \E c \in EnvConfigs : env = Environment(c[1], c[2], c[3])
    /\ prevEnv = env
    /\ batches = 0
    /\ SimulationIdle
    /\ StoreIdle
    /\ TwinIdle
    /\ generation = 0
    /\ returned = <<>>

\* Simulation(agents=[...], config=SimulationConfig(num_days=...)) with agents of
\* personality_agents.py
InitSim ==
    /\ module = "personality_agents"
    /\ state = DefaultAgent("altruist")
    /\ prev = state
    /\ day_index = 0
    /\ op = "init"
    /\ arg = 0
    /\ result = NoneResult
    /\ coopLog = <<>>
    /\ harvestCalls = 0
    /\ partner = DefaultAgent("altruist")
    /\ prevPartner = partner
    /\ env = Environment(DefaultWidth, DefaultHeight, DefaultSpawnRate)
    /\ prevEnv = env
    /\ batches = 0
    /\ \E r \in InitialRosters :
          agents = [i \in 1..Len(r) |-> Agent(i, DefaultAgent(r[i]))]
    /\ prevAgents = agents
    /\ num_days \in NumDays
    /\ stepCalls = 0
    /\ runCalls = 0
    /\ StoreIdle
    /\ TwinIdle
    /\ generation = 0
    /\ returned = <<>>

\* the agents will_accept_offer and negotiate_demand are called on: the default
\* agent of each profile and its unmutated offspring
OfferAgents ==
    {DefaultAgent(p) : p \in Profiles} \cup
    {MakeOffspring(DefaultAgent(p), 0, d[1], d[2], d[3], d[4], d[5], d[6]) :
        p \in Profiles, d \in RandomDraws} \cup
    {TraitAgent(p, x[1], x[2], x[3], x[4]) : p \in Profiles, x \in ExtremeTraits}

\* an agent of either module out of OfferAgents
InitRequest ==
    /\ module \in Modules
    /\ state \in OfferAgents
    /\ prev = state
    /\ day_index = 0
    /\ op = "init"
    /\ arg = 0
    /\ result = NoneResult
    /\ coopLog = <<>>
    /\ harvestCalls = 0
    /\ partner = DefaultAgent("altruist")
    /\ prevPartner = partner
    /\ env = Environment(DefaultWidth, DefaultHeight, DefaultSpawnRate)
    /\ prevEnv = env
    /\ batches = 0
    /\ SimulationIdle
    /\ StoreIdle
    /\ TwinIdle
    /\ generation = 0
    /\ returned = <<>>

\* an agent of personality_agents.py out of OfferAgents
InitOffer ==
    /\ module = "personality_agents"
    /\ state \in OfferAgents
    /\ prev = state
    /\ day_index = 0
    /\ op = "init"
    /\ arg = 0
    /\ result = NoneResult
    /\ coopLog = <<>>
    /\ harvestCalls = 0
    /\ partner = DefaultAgent("altruist")
    /\ prevPartner = partner
    /\ env = Environment(DefaultWidth, DefaultHeight, DefaultSpawnRate)
    /\ prevEnv = env
    /\ batches = 0
    /\ SimulationIdle
    /\ StoreIdle
    /\ TwinIdle
    /\ generation = 0
    /\ returned = <<>>

\* P(reputation=...) for each profile P of personality_agents.py
NegotiationAgents ==
    {[DefaultAgent(p) EXCEPT !.reputation = rep] :
        p \in Profiles, rep \in StartReputations}

\* two agents of personality_agents.py about to negotiate
InitNegotiate ==
    /\ module = "personality_agents"
    /\ state \in NegotiationAgents
    /\ partner \in NegotiationAgents
    /\ prev = state
    /\ prevPartner = partner
    /\ day_index = 0
    /\ op = "init"
    /\ arg = 0
    /\ result = NoneResult
    /\ coopLog = <<>>
    /\ harvestCalls = 0
    /\ env = Environment(DefaultWidth, DefaultHeight, DefaultSpawnRate)
    /\ prevEnv = env
    /\ batches = 0
    /\ SimulationIdle
    /\ StoreIdle
    /\ TwinIdle
    /\ generation = 0
    /\ returned = <<>>

----------------------------------------------------------------------------
(* Operations *)

\* the calls so far that add a harvest entry, a cooperation entry, a day of age
\* or a simulated day
GrowthCalls == harvestCalls + Len(coopLog) + state.age + day_index

Call(name, a, s, r) ==
    /\ op' = name
    /\ arg' = a
    /\ prev' = state
    /\ state' = s
    /\ result' = r
    /\ UNCHANGED <<partner, prevPartner, env, prevEnv, batches>>
    /\ UNCHANGED simVars
    /\ UNCHANGED storeVars
    /\ UNCHANGED twinVars
    /\ UNCHANGED generation
    /\ UNCHANGED returned

DoReceive(amount) ==
    /\ state.resources_reserve + amount <= MaxReserve
    /\ Call("receive_resources", amount, receive_resources(state, amount), NoneResult)
    /\ harvestCalls' = harvestCalls + 1
    /\ UNCHANGED <<module, day_index, coopLog>>

DoAdd(amount) ==
    /\ state.resources_reserve + amount <= MaxReserve
    /\ Call("add_resources", amount, add_resources(state, amount), NoneResult)
    /\ harvestCalls' = harvestCalls + 1
    /\ UNCHANGED <<module, day_index, coopLog>>

DoUpdateReputation(b) ==
    /\ Call("update_reputation", b, update_reputation(state, b), NoneResult)
    /\ coopLog' = Append(coopLog, b)
    /\ UNCHANGED <<module, day_index, harvestCalls>>

ReceiveResources ==
    \E amount \in Amounts :
        /\ GrowthCalls < MaxCalls
        /\ DoReceive(amount)

AddResources ==
    \E amount \in Amounts :
        /\ GrowthCalls < MaxCalls
        /\ DoAdd(amount)

ConsumeResources ==
    \E amount \in Amounts :
        /\ Call("consume_resources", amount, consume_resources(state, amount).state,
                BoolResult(consume_resources(state, amount).ret))
        /\ UNCHANGED <<module, day_index, coopLog, harvestCalls>>

ChargeReproductionCost ==
    /\ Call("charge_reproduction_cost", 0, charge_reproduction_cost(state), NoneResult)
    /\ UNCHANGED <<module, day_index, coopLog, harvestCalls>>

StartNewDay ==
    /\ Call("start_new_day", 0, start_new_day(state), NoneResult)
    /\ UNCHANGED <<module, day_index, coopLog, harvestCalls>>

PerformDailyUpkeep ==
    /\ Call("perform_daily_upkeep", 0, perform_daily_upkeep(state), NoneResult)
    /\ UNCHANGED <<module, day_index, coopLog, harvestCalls>>

Die ==
    /\ Call("die", 0, die(state), NoneResult)
    /\ UNCHANGED <<module, day_index, coopLog, harvestCalls>>

AgeStep ==
    /\ GrowthCalls < MaxCalls
    /\ Call("age_step", 0, age_step(state), NoneResult)
    /\ UNCHANGED <<module, day_index, coopLog, harvestCalls>>

UpdateReputation ==
    \E b \in BOOLEAN :
        /\ GrowthCalls < MaxCalls
        /\ DoUpdateReputation(b)

Reproduce ==
    \E mutation_rate \in Rates, d \in RandomDraws :
        LET r == reproduce(module, state, mutation_rate, d[1], d[2],
                           d[3], d[4], d[5], d[6])
        IN  /\ Call("reproduce", mutation_rate, r.state, r.ret)
            /\ UNCHANGED <<module, day_index, coopLog, harvestCalls>>

\* Simulation.step
Step ==
    /\ GrowthCalls < MaxCalls
    /\ day_index' = day_index + 1
    /\ op' = "step"
    /\ arg' = 0
    /\ prev' = state
    /\ result' = NoneResult
    /\ UNCHANGED <<module, state, coopLog, harvestCalls>>
    /\ UNCHANGED <<partner, prevPartner, env, prevEnv, batches>>
    /\ UNCHANGED simVars
    /\ UNCHANGED storeVars
    /\ UNCHANGED twinVars
    /\ UNCHANGED generation
    /\ UNCHANGED returned

Next ==
    \/ ReceiveResources
    \/ AddResources
    \/ ConsumeResources
    \/ ChargeReproductionCost
    \/ StartNewDay
    \/ PerformDailyUpkeep
    \/ Die
    \/ AgeStep
    \/ UpdateReputation
    \/ Reproduce
    \/ Step

Spec == Init /\ [][Next]_vars

\* long runs of receive_resources/add_resources on a default agent
HarvestReceive ==
    \E amount \in HarvestAmounts :
        /\ harvestCalls < MaxHarvestCalls
        /\ DoReceive(amount)

HarvestAdd ==
    \E amount \in HarvestAmounts :
        /\ harvestCalls < MaxHarvestCalls
        /\ DoAdd(amount)

NextHarvest == HarvestReceive \/ HarvestAdd

SpecHarvest == InitDefault /\ [][NextHarvest]_vars

\* long runs of update_reputation on a default agent
Minority(log) ==
    IF CountTrue(log) <= Len(log) - CountTrue(log)
    THEN CountTrue(log)
    ELSE Len(log) - CountTrue(log)

CoopUpdate ==
    \E b \in BOOLEAN :
        /\ Len(coopLog) < MaxCoopCalls
        /\ Minority(Append(coopLog, b)) <= MaxMinority
        /\ DoUpdateReputation(b)

NextCoop == CoopUpdate

SpecCoop == InitCoop /\ [][NextCoop]_vars

\* SpecOffer: one agent answering offers and naming demands

WillAcceptOffer ==
    \E partner_demand \in PartnerDemands, partner_reputation \in PartnerReputations,
       r \in AcceptDraws :
        /\ Call("will_accept_offer", <<partner_demand, partner_reputation, r>>, state,
                BoolResult(will_accept_offer(state, partner_demand,
                                             partner_reputation, r)))
        /\ UNCHANGED <<module, day_index, coopLog, harvestCalls>>

NegotiateDemand ==
    \E partner_reputation \in PartnerReputations, u \in UniformDraws :
        /\ Call("negotiate_demand", <<partner_reputation, u>>, state,
                [kind |-> "float",
                 value |-> negotiate_demand(state, partner_reputation, u)])
        /\ UNCHANGED <<module, day_index, coopLog, harvestCalls>>

NextOffer ==
    \/ WillAcceptOffer
    \/ NegotiateDemand

SpecOffer == InitOffer /\ [][NextOffer]_vars

\* SpecRequest: one agent of either module asked for its request

CalculateRequest ==
    \E total_resources \in TotalResources, population_size \in PopulationSizes,
       variation \in RequestVariation(state.agent_type)[1]
                         ..RequestVariation(state.agent_type)[2] :
        /\ Call("calculate_request", <<total_resources, population_size, variation>>,
                state,
                calculate_request(module, state, total_resources,
                                  population_size, variation))
        /\ UNCHANGED <<module, day_index, coopLog, harvestCalls>>

DesiredIntakeToday ==
    /\ Call("desired_intake_today", 0, state,
            [kind |-> "int", value |-> desired_intake_today(state)])
    /\ UNCHANGED <<module, day_index, coopLog, harvestCalls>>

NextRequest ==
    \/ CalculateRequest
    \/ DesiredIntakeToday

SpecRequest == InitRequest /\ [][NextRequest]_vars

\* SpecStore: a caller that snapshots its state dict, logs its record and
\* mutates the dicts it holds

StoreCall(name, a, h, r) ==
    /\ op' = name
    /\ arg' = a
    /\ prevHeap' = heap
    /\ heap' = h
    /\ result' = r
    /\ UNCHANGED <<module, state, prev, day_index, coopLog, harvestCalls,
                   partner, prevPartner, env, prevEnv, batches>>
    /\ UNCHANGED simVars
    /\ UNCHANGED <<sim_state, record>>
    /\ UNCHANGED twinVars
    /\ UNCHANGED generation
    /\ UNCHANGED returned

\* a call of the snapshot or metrics code: it mutates nothing the caller holds
LibraryCall(name, a, h, r) ==
    /\ StoreCall(name, a, h, r)
    /\ UNCHANGED mutations

\* a mutation made by the caller
Mutation(name, a, h) ==
    /\ mutations < MaxMutations
    /\ StoreCall(name, a, h, NoneResult)
    /\ mutations' = mutations + 1
    /\ UNCHANGED <<snapshot, restored, daily, loggedValues, takenValue>>

TakeSnapshot ==
    /\ snapshot.state = 0
    /\ LibraryCall("take_snapshot", sim_state, take_snapshot(heap, sim_state).heap,
                   NoneResult)
    /\ snapshot' = take_snapshot(heap, sim_state).ret
    /\ takenValue' = ValueOf(heap, sim_state)
    /\ UNCHANGED <<restored, daily, loggedValues>>

RestoreSnapshot ==
    /\ snapshot.state # 0
    /\ restored = 0
    /\ LibraryCall("restore_snapshot", snapshot.state,
                   restore_snapshot(heap, snapshot).heap, NoneResult)
    /\ restored' = restore_snapshot(heap, snapshot).ret
    /\ UNCHANGED <<snapshot, daily, loggedValues, takenValue>>

LogDay ==
    /\ Len(daily) < MaxDays
    /\ LibraryCall("log_day", record, log_day(heap, daily, record).heap, NoneResult)
    /\ daily' = log_day(heap, daily, record).daily
    /\ loggedValues' = Append(loggedValues, ValueOf(heap, record))
    /\ UNCHANGED <<snapshot, restored, takenValue>>

Finalize ==
    /\ LibraryCall("finalize", 0, heap, finalize(heap, daily))
    /\ UNCHANGED <<snapshot, restored, daily, loggedValues, takenValue>>

\* the dicts the caller holds: its own two and the one restore_snapshot gave it
HeldDicts == {sim_state, record} \cup (IF restored = 0 THEN {} ELSE {restored})

\* d["data"].append(x) on a dict the caller holds
AppendNested ==
    \E a \in HeldDicts, x \in ListItems :
        /\ "data" \in DOMAIN heap[a].items
        /\ heap[a].items["data"].ref
        /\ Mutation("append", <<a, "data", x>>, list_append(heap, a, "data", x))

\* d[k] = n on a dict the caller holds
SetItem ==
    \E a \in HeldDicts, k \in Keys, n \in IntItems :
        /\ ~(k \in DOMAIN heap[a].items /\ heap[a].items[k] = IntValue(n))
        /\ Mutation("setitem", <<a, k, n>>, set_item(heap, a, k, n))

NextStore ==
    \/ TakeSnapshot
    \/ RestoreSnapshot
    \/ LogDay
    \/ Finalize
    \/ AppendNested
    \/ SetItem

SpecStore == InitStore /\ [][NextStore]_vars

\* SpecTwin: two runs that start from the same configuration and the same seed
\* and perform the same operations.  A run takes its random values from its
\* own copy of the seeded stream (the value it sees depends on the seed and on
\* how many values it has drawn) and its agent ids from uuid.uuid4().

\* the state of the stream seeded with s after n spawns
StreamAt(s, n) == (s + n) % Cardinality(SpawnSeeds)

\* P() in a run: BaseAgent.__init__ with id = str(uuid.uuid4())
RunConstruct(r, p, id) ==
    [r EXCEPT !.agents = Append(@, Agent(id, DefaultAgent(p)))]

\* env.spawn_resources() in a run
RunSpawn(r) ==
    [r EXCEPT !.env = spawn_resources(@, StreamAt(run_seed, r.drawn), r.drawn + 1).env,
              !.drawn = @ + 1]

\* agents[i].receive_resources(amount) in a run
RunReceive(r, i, amount) ==
    [r EXCEPT !.agents[i].state = receive_resources(@, amount)]

TwinCall(name, a, ra, rb) ==
    /\ op' = name
    /\ arg' = a
    /\ runA' = ra
    /\ runB' = rb
    /\ UNCHANGED <<module, state, prev, day_index, result, coopLog, harvestCalls,
                   partner, prevPartner, env, prevEnv, batches, run_seed>>
    /\ UNCHANGED simVars
    /\ UNCHANGED storeVars
    /\ UNCHANGED <<returned, generation>>

TwinConstruct ==
    \E p \in Profiles, ida \in Uuids, idb \in Uuids :
        /\ Len(runA.agents) < MaxTwinAgents
        /\ TwinCall("init", p, RunConstruct(runA, p, ida), RunConstruct(runB, p, idb))

TwinSpawn ==
    /\ runA.drawn < MaxSpawns
    /\ TwinCall("spawn_resources", 0, RunSpawn(runA), RunSpawn(runB))

TwinReceive ==
    \E i \in 1..Len(runA.agents), amount \in SimAmounts :
        /\ Len(runA.agents[i].state.harvest_history) < MaxAgentCalls
        /\ TwinCall("receive_resources", <<i, amount>>,
                    RunReceive(runA, i, amount), RunReceive(runB, i, amount))

NextTwin ==
    \/ TwinConstruct
    \/ TwinSpawn
    \/ TwinReceive

SpecTwin == InitTwin /\ [][NextTwin]_vars

\* SpecLineage: a line of descent.  The agent in state collects what reproduce
\* asks for and reproduces; state then holds its offspring.

LineageCall(name, a, s, r, g) ==
    /\ op' = name
    /\ arg' = a
    /\ prev' = state
    /\ state' = s
    /\ result' = r
    /\ generation' = g
    /\ UNCHANGED <<module, day_index, coopLog, harvestCalls,
                   partner, prevPartner, env, prevEnv, batches>>
    /\ UNCHANGED simVars
    /\ UNCHANGED storeVars
    /\ UNCHANGED twinVars
    /\ UNCHANGED returned

LineageReceive ==
    /\ state.resources_reserve < state.reproduction_reserve
    /\ LineageCall("receive_resources", state.reproduction_reserve,
                   receive_resources(state, state.reproduction_reserve),
                   NoneResult, generation)

\* offspring = state.reproduce(mutation_rate); the offspring is followed
LineageReproduce ==
    \E mutation_rate \in Rates, d \in RandomDraws :
        LET r == reproduce(module, state, mutation_rate, d[1], d[2],
                           d[3], d[4], d[5], d[6])
        IN  /\ generation < MaxGenerations
            /\ r.ret.kind = "agent"
            /\ LineageCall("reproduce", mutation_rate, r.ret.agent, r.ret,
                           generation + 1)

NextLineage ==
    \/ LineageReceive
    \/ LineageReproduce

SpecLineage == InitLineage /\ [][NextLineage]_vars

\* SpecNegotiate: Negotiation.negotiate on two agents.  arg records the pool and
\* the values the random stream holds for the two negotiate_demand calls (ua, ub)
\* and the two will_accept_offer calls (ra, rb) of the protocol.

Negotiate ==
    \E resource_size \in ResourceSizes, ua \in UniformDraws, ub \in UniformDraws,
       ra \in NegotiationDraws, rb \in NegotiationDraws :
        LET n == negotiate(state, partner, resource_size)
        IN  /\ op' = "negotiate"
            /\ arg' = [resource_size |-> resource_size,
                       ua |-> ua, ub |-> ub, ra |-> ra, rb |-> rb]
            /\ prev' = state
            /\ prevPartner' = partner
            /\ state' = n.a
            /\ partner' = n.b
            /\ result' = n.ret
            /\ UNCHANGED <<module, day_index, coopLog, harvestCalls,
                           env, prevEnv, batches>>
            /\ UNCHANGED simVars
            /\ UNCHANGED storeVars
            /\ UNCHANGED twinVars
            /\ UNCHANGED generation
            /\ UNCHANGED returned

NextNegotiate == Negotiate

SpecNegotiate == InitNegotiate /\ [][NextNegotiate]_vars

\* SpecEnv: the operations of one Environment

EnvCall(name, a, e, r) ==
    /\ op' = name
    /\ arg' = a
    /\ prevEnv' = env
    /\ env' = e
    /\ result' = r
    /\ UNCHANGED <<module, state, prev, day_index, coopLog, harvestCalls,
                   partner, prevPartner>>
    /\ UNCHANGED simVars
    /\ UNCHANGED storeVars
    /\ UNCHANGED twinVars
    /\ UNCHANGED generation

\* env.resources = [Resource(...), ...]
AssignResources ==
    \E l \in ResourceLists :
        /\ batches < MaxBatches
        /\ EnvCall("assign_resources", l,
                   [env EXCEPT !.resources =
                       [i \in 1..Len(l) |->
                           Resource(l[i][1], l[i][2], l[i][3], batches + 1)]],
                   NoneResult)
        /\ batches' = batches + 1
        /\ returned' = [i \in 1..Len(l) |-> 0]

SpawnResources ==
    \E seed \in SpawnSeeds :
        /\ batches < MaxBatches
        /\ EnvCall("spawn_resources", seed,
                   spawn_resources(env, seed, batches + 1).env,
                   spawn_resources(env, seed, batches + 1).ret)
        /\ batches' = batches + 1
        /\ returned' = [i \in 1..Len(spawn_resources(env, seed, batches + 1).env.resources)
                            |-> 0]

GetClosestResource ==
    \E pos \in AgentPositions :
        /\ EnvCall("get_closest_resource", pos, env,
                   get_closest_resource(env, pos[1], pos[2]))
        /\ UNCHANGED <<batches, returned>>

CollectResource ==
    \E i \in 1..Len(env.resources) :
        /\ EnvCall("collect_resource", i, collect_resource(env, i).env,
                   collect_resource(env, i).ret)
        /\ returned' = [returned EXCEPT ![i] = @ + collect_resource(env, i).ret.value]
        /\ UNCHANGED batches

NextEnv ==
    \/ AssignResources
    \/ SpawnResources
    \/ GetClosestResource
    \/ CollectResource

SpecEnv == InitEnv /\ [][NextEnv]_vars

\* SpecSim: a Simulation, and the calls its caller makes on the agents it holds

SimCall(name, a, roster, day) ==
    /\ op' = name
    /\ arg' = a
    /\ prevAgents' = agents
    /\ agents' = roster
    /\ day_index' = day
    /\ result' = NoneResult
    /\ UNCHANGED <<module, state, prev, coopLog, harvestCalls, partner, prevPartner,
                   env, prevEnv, batches, num_days>>
    /\ UNCHANGED storeVars
    /\ UNCHANGED twinVars
    /\ UNCHANGED generation
    /\ UNCHANGED returned

\* the calls made on the agents of the roster so far that left a trace
RECURSIVE AgentCalls(_)
AgentCalls(roster) ==
    IF roster = <<>> THEN 0
    ELSE Len(Head(roster).state.harvest_history)
         + (IF Head(roster).state.alive THEN 0 ELSE 1)
         + AgentCalls(Tail(roster))

AddAgents ==
    \E l \in NewAgentLists :
        /\ Len(agents) + Len(l) <= MaxRoster
        /\ SimCall("add_agents", l,
                   add_agents(agents,
                              [i \in 1..Len(l) |->
                                  Agent(Len(agents) + i, DefaultAgent(l[i]))]),
                   day_index)
        /\ UNCHANGED <<stepCalls, runCalls>>

SimulationStep ==
    /\ stepCalls + runCalls < MaxSimCalls
    /\ SimCall("step", 0, step(agents, day_index).agents,
               step(agents, day_index).day_index)
    /\ stepCalls' = stepCalls + 1
    /\ UNCHANGED runCalls

SimulationRun ==
    /\ stepCalls + runCalls < MaxSimCalls
    /\ SimCall("run", 0, run(agents, day_index, num_days).agents,
               run(agents, day_index, num_days).day_index)
    /\ runCalls' = runCalls + 1
    /\ UNCHANGED stepCalls

\* agent.receive_resources(amount) for an agent of the roster
RosterReceive ==
    \E i \in 1..Len(agents), amount \in SimAmounts :
        /\ AgentCalls(agents) < MaxAgentCalls
        /\ SimCall("agent.receive_resources", <<i, amount>>,
                   [agents EXCEPT ![i].state = receive_resources(@, amount)],
                   day_index)
        /\ UNCHANGED <<stepCalls, runCalls>>

\* agent.die() for a live agent of the roster
RosterDie ==
    \E i \in 1..Len(agents) :
        /\ agents[i].state.alive
        /\ AgentCalls(agents) < MaxAgentCalls
        /\ SimCall("agent.die", i, [agents EXCEPT ![i].state = die(@)], day_index)
        /\ UNCHANGED <<stepCalls, runCalls>>

\* BigResourceEnvironment().select_pair(sim.agents)
SelectPair ==
    /\ op' = "select_pair"
    /\ arg' = 0
    /\ prevAgents' = agents
    /\ result' = select_pair(agents)
    /\ UNCHANGED <<module, state, prev, day_index, coopLog, harvestCalls, partner,
                   prevPartner, env, prevEnv, batches, agents, num_days,
                   stepCalls, runCalls>>
    /\ UNCHANGED storeVars
    /\ UNCHANGED twinVars
    /\ UNCHANGED <<returned, generation>>

NextSim ==
    \/ AddAgents
    \/ SimulationStep
    \/ SimulationRun
    \/ RosterReceive
    \/ RosterDie
    \/ SelectPair

SpecSim == InitSim /\ [][NextSim]_vars

----------------------------------------------------------------------------
(* Claims *)

\* the fields a dead agent's record is said to keep
Frozen(s) ==
    <<s.age, s.resources_reserve, s.harvest_history, s.cooperation_history,
      s.reputation>>

\* C1: starting from a reserve of 0, resources_reserve is >= 0 in every state
\* reached by receive_resources, add_resources, consume_resources,
\* charge_reproduction_cost and start_new_day calls with any amounts.
ReserveNonNegative == state.resources_reserve >= 0

\* a consume_resources call asking for more than the agent holds
ConsumeClampedAtZero ==
    /\ op = "consume_resources"
    /\ prev.resources_reserve > 0
    /\ arg > prev.resources_reserve
    /\ state.resources_reserve = 0

\* C2: perform_daily_upkeep on a live agent leaves it alive exactly when
\* resources_reserve >= daily_need held at the call.
UpkeepKillsExactlyTheUnderfed ==
    (op = "perform_daily_upkeep" /\ prev.alive) =>
        (state.alive <=> prev.resources_reserve >= prev.daily_need)

\* a live agent holding less than its daily need dies in upkeep
UpkeepKilledUnderfed ==
    /\ op = "perform_daily_upkeep"
    /\ prev.alive
    /\ prev.resources_reserve > 0
    /\ prev.resources_reserve < prev.daily_need
    /\ ~state.alive

\* C3: once the alive flag is false, no agent operation and no simulation step
\* makes it true again.
AliveNeverReturns == ~prev.alive => ~state.alive

\* upkeep ran on a dead agent that holds its daily need
UpkeepOnFedDeadAgent ==
    /\ op = "perform_daily_upkeep"
    /\ ~prev.alive
    /\ prev.resources_reserve >= prev.daily_need
    /\ ~state.alive

\* C4 as stated: age_step, receive_resources, consume_resources,
\* update_reputation and reproduce leave the age, reserve, histories and
\* reputation of a dead agent unchanged.
DeadAgentFrozen ==
    (/\ ~prev.alive
     /\ op \in {"age_step", "receive_resources", "consume_resources",
                "update_reputation", "reproduce"}) =>
        Frozen(state) = Frozen(prev)

\* C4 as amended: reproduce leaves the age, reserve, histories and reputation
\* of a dead agent unchanged (the other four methods do not look at the flag).
DeadAgentReproduceFrozen ==
    (~prev.alive /\ op = "reproduce") => Frozen(state) = Frozen(prev)

\* reproduce was called on a dead agent holding its reproduction reserve
ReproduceOnRichDeadAgent ==
    /\ op = "reproduce"
    /\ ~prev.alive
    /\ prev.resources_reserve >= prev.reproduction_reserve

\* C5: after any sequence of receive_resources and add_resources calls,
\* harvest_history has at most 10 entries.
HarvestHistoryBounded == Len(state.harvest_history) <= HarvestWindow

StartNewDayResets ==
    op = "start_new_day" => state.resources_reserve = 0

\* start_new_day on an agent holding more than its daily need
StartNewDayDroppedSurplus ==
    /\ op = "start_new_day"
    /\ prev.resources_reserve > prev.daily_need
    /\ state.resources_reserve = 0

\* C8: reproduce on an agent that is not eligible returns null and changes
\* nothing, for every profile class.
IneligibleReproduceReturnsNull ==
    (op = "reproduce" /\ ~can_reproduce(prev)) =>
        (result.kind = "None" /\ state = prev)

\* C9: reproduce on an eligible agent returns an offspring and lowers the
\* parent's reserve by exactly reproduction_cost, for every profile class.
EligibleReproduceCharges ==
    (op = "reproduce" /\ can_reproduce(prev)) =>
        /\ result.kind = "agent"
        /\ state.resources_reserve
              = prev.resources_reserve - prev.reproduction_cost

\* C10: an offspring has the parent's profile, or is a default agent of one of
\* the other two profiles; with mutation_rate 0 it always has the parent's
\* profile, with mutation_rate 1 never.
OffspringProfile ==
    (op = "reproduce" /\ result.kind = "agent") =>
        LET o == result.agent
        IN  /\ \/ o.agent_type = prev.agent_type
               \/ /\ o.agent_type \in Profiles \ {prev.agent_type}
                  /\ o = DefaultAgent(o.agent_type)
            /\ arg = 0 => o.agent_type = prev.agent_type
            /\ arg = 100 => o.agent_type # prev.agent_type

\* a reproduce call with the default mutation_rate 0.05 whose draw mutated
MutatedOffspring ==
    /\ op = "reproduce"
    /\ arg = 5
    /\ result.kind = "agent"
    /\ result.agent.agent_type # prev.agent_type
    /\ result.agent = DefaultAgent(result.agent.agent_type)

\* C11: will_accept_offer returns true whenever the share left by the partner's
\* demand, 1 - partner_demand, is at least the agent's acceptance_threshold, for
\* every profile, partner reputation and random draw.
FairShareAccepted ==
    (op = "will_accept_offer" /\ 100 - arg[1] >= prev.acceptance_threshold)
        => result = BoolResult(TRUE)

\* an offer that leaves exactly the threshold, from a partner of low reputation,
\* with a high draw, was accepted
ThresholdOfferAccepted ==
    /\ op = "will_accept_offer"
    /\ 100 - arg[1] = prev.acceptance_threshold
    /\ arg[2] = 0
    /\ arg[3] = 99
    /\ result = BoolResult(TRUE)

\* the demands and the answers of the protocol for the last negotiate call
DemandA == negotiate_demand(prev, prevPartner.reputation, arg.ua)
DemandB == negotiate_demand(prevPartner, prev.reputation, arg.ub)
AcceptsA == will_accept_offer(prev, DemandB, prevPartner.reputation, arg.ra)
AcceptsB == will_accept_offer(prevPartner, DemandA, prev.reputation, arg.rb)

\* C12: when each side accepts the other's demand, negotiate returns
\* (floor((1 - demand_b) * S), floor((1 - demand_a) * S), true).
AgreedSplitReturned ==
    (op = "negotiate" /\ AcceptsA /\ AcceptsB)
        => result = TupleResult(((100 - DemandB) * arg.resource_size) \div 100,
                                ((100 - DemandA) * arg.resource_size) \div 100,
                                TRUE)

\* C13: when at least one side rejects the other's demand, negotiate returns
\* (0, 0, false) and neither agent's resources_reserve changes.
RejectionAllocatesNothing ==
    (op = "negotiate" /\ ~(AcceptsA /\ AcceptsB))
        => /\ result = TupleResult(0, 0, FALSE)
           /\ state.resources_reserve = prev.resources_reserve
           /\ partner.resources_reserve = prevPartner.resources_reserve

\* a negotiation over a non-empty pool in which one side accepted and the other
\* rejected
OneSideRejected ==
    /\ op = "negotiate"
    /\ arg.resource_size > 0
    /\ AcceptsA
    /\ ~AcceptsB
    /\ result = TupleResult(0, 0, FALSE)

\* C14: an agent whose reputation starts in [0, 1] has a reputation in [0, 1]
\* after any number of update_reputation calls with any outcomes.
ReputationInUnitInterval ==
    /\ 0 <= state.reputation
    /\ state.reputation <= RepScale

\* an agent built with reputation 1.0 still has reputation 1.0 after more
\* successes than the window holds
ReputationAtUpperEnd ==
    /\ op = "update_reputation"
    /\ Len(coopLog) > CoopWindow
    /\ Minority(coopLog) = 0
    /\ arg = TRUE
    /\ state.reputation = RepScale

\* the places of the uncollected resources of the environment the last
\* operation was called on, and the Manhattan distance of place i to arg
Uncollected ==
    {i \in 1..Len(prevEnv.resources) : ~prevEnv.resources[i].collected}
ManhattanToArg(i) ==
    (IF prevEnv.resources[i].x >= arg[1] THEN prevEnv.resources[i].x - arg[1]
     ELSE arg[1] - prevEnv.resources[i].x)
    + (IF prevEnv.resources[i].y >= arg[2] THEN prevEnv.resources[i].y - arg[2]
       ELSE arg[2] - prevEnv.resources[i].y)

\* C15: get_closest_resource returns null exactly when no resource is
\* uncollected; otherwise it returns an uncollected resource whose Manhattan
\* distance to (x, y) is minimal among the uncollected resources.
ClosestIsNearestUncollected ==
    op = "get_closest_resource" =>
        /\ (result.kind = "None") <=> (Uncollected = {})
        /\ result.kind # "None" =>
              /\ result.kind = "resource"
              /\ result.index \in Uncollected
              /\ \A j \in Uncollected :
                    ManhattanToArg(result.index) <= ManhattanToArg(j)

\* a resource was returned although a collected one lies strictly closer
CloserCollectedSkipped ==
    /\ op = "get_closest_resource"
    /\ result.kind = "resource"
    /\ \E j \in 1..Len(prevEnv.resources) :
          /\ prevEnv.resources[j].collected
          /\ ManhattanToArg(j) < ManhattanToArg(result.index)

\* C16: of several uncollected resources at the same minimal distance,
\* get_closest_resource returns the one that comes first in the list; resources
\* (1,1), (5,5), (9,9) and an agent at (3,3) give (1,1).
TieGoesToFirstInList ==
    (op = "get_closest_resource" /\ result.kind = "resource") =>
        /\ \A j \in Uncollected :
              ManhattanToArg(j) = ManhattanToArg(result.index) => result.index <= j
        /\ ( /\ arg = <<3, 3>>
             /\ Len(prevEnv.resources) = 3
             /\ Uncollected = {1, 2, 3}
             /\ \A i \in 1..3 : /\ prevEnv.resources[i].x = 4 * i - 3
                                 /\ prevEnv.resources[i].y = 4 * i - 3 )
            => result.index = 1

\* two uncollected resources tie for the minimum and the one returned lies
\* to the right of the later one
TieBrokenByListOrder ==
    /\ op = "get_closest_resource"
    /\ result.kind = "resource"
    /\ \E j \in Uncollected :
          /\ j > result.index
          /\ ManhattanToArg(j) = ManhattanToArg(result.index)
          /\ prevEnv.resources[j].x < prevEnv.resources[result.index].x

\* C17: collect_resource on an already-collected resource returns the resource's
\* value, as the first collection did, and leaves the collected flag true.
RecollectReturnsValue ==
    (op = "collect_resource" /\ prevEnv.resources[arg].collected) =>
        /\ result = IntResult(prevEnv.resources[arg].value)
        /\ env.resources[arg].collected

\* C18: after spawn_resources the environment holds exactly
\* max(5, floor(resource_spawn_rate * width * height)) resources, and every one
\* of them was made by this call.
SpawnReplacesResources ==
    op = "spawn_resources" =>
        /\ Len(env.resources) =
              (IF (env.resource_spawn_rate * env.width * env.height) \div 100 > 5
               THEN (env.resource_spawn_rate * env.width * env.height) \div 100
               ELSE 5)
        /\ \A i \in 1..Len(env.resources) : env.resources[i].born = batches

\* C19: every resource created by spawn_resources lies inside the grid, has
\* value 1 and is uncollected.
SpawnedInsideGrid ==
    op = "spawn_resources" =>
        \A i \in 1..Len(env.resources) :
            /\ 0 <= env.resources[i].x /\ env.resources[i].x < env.width
            /\ 0 <= env.resources[i].y /\ env.resources[i].y < env.height
            /\ env.resources[i].value = 1
            /\ ~env.resources[i].collected

\* a spawn on a grid wider than one cell put a resource in the last column,
\* replacing a list that held a collected resource
SpawnedInLastColumn ==
    /\ op = "spawn_resources"
    /\ env.width > 1
    /\ \E i \in 1..Len(env.resources) : env.resources[i].x = env.width - 1
    /\ \E j \in 1..Len(prevEnv.resources) : prevEnv.resources[j].collected

\* C20: when resource_spawn_rate * width * height is 0, spawn_resources
\* completes without raising and leaves the environment with no resources.
ZeroAreaSpawnsNothing ==
    (op = "spawn_resources" /\ env.resource_spawn_rate * env.width * env.height = 0) =>
        /\ result.kind # "raise"
        /\ env.resources = <<>>

\* C21: starting from day 0, the day counter equals the number of step calls
\* plus num_days times the number of run calls.
DayCounterCountsStepsAndRuns ==
    day_index = stepCalls + num_days * runCalls

\* the places of the agents of the roster that were alive when the last
\* operation was called
LiveBefore == {i \in 1..Len(prevAgents) : prevAgents[i].state.alive}

\* C22: every step resets the resources_reserve of each live agent to 0; step
\* itself hands out nothing, so the reserve is 0 when step returns.
StepResetsReserves ==
    op = "step" =>
        \A i \in LiveBefore : agents[i].state.resources_reserve = 0

\* C23: a live agent whose resources of the day are below its daily_need is not
\* alive when step returns.
StepKillsTheUnderfed ==
    op = "step" =>
        \A i \in LiveBefore :
            agents[i].state.resources_reserve < agents[i].state.daily_need
                => ~agents[i].state.alive

\* C24: every step increases the age of each agent alive at the advance phase
\* by exactly 1 and leaves the age of dead agents unchanged.
StepAgesTheLiving ==
    op = "step" =>
        \A i \in 1..Len(prevAgents) :
            agents[i].state.age =
                prevAgents[i].state.age + (IF agents[i].state.alive THEN 1 ELSE 0)

\* C25: in a step each live agent with resources_reserve >= reproduction_reserve
\* produces an offspring that is appended to the roster and is flagged newborn
\* on its day of birth.
StepAppendsOffspring ==
    op = "step" =>
        LET eligible == {i \in LiveBefore :
                            prevAgents[i].state.resources_reserve
                                >= prevAgents[i].state.reproduction_reserve}
        IN  /\ Len(agents) = Len(prevAgents) + Cardinality(eligible)
            /\ \A j \in (Len(prevAgents) + 1)..Len(agents) : agents[j].state.newborn

ConsumeAllOrNothing ==
    op = "consume_resources" =>
        /\ arg > prev.resources_reserve =>
              /\ result = BoolResult(FALSE)
              /\ state.resources_reserve = 0
        /\ (0 < arg /\ arg <= prev.resources_reserve) =>
              /\ result = BoolResult(TRUE)
              /\ state.resources_reserve = prev.resources_reserve - arg

\* the whole of a non-empty reserve was consumed in one call
ConsumedWholeReserve ==
    /\ op = "consume_resources"
    /\ arg > 0
    /\ arg = prev.resources_reserve
    /\ result = BoolResult(TRUE)
    /\ state.resources_reserve = 0

\* C28: receive_resources(amount <= 0) leaves resources_reserve unchanged and
\* appends one entry, 0, to harvest_history; consume_resources(amount <= 0)
\* leaves the agent's state unchanged.
NonPositiveAmountHarmless ==
    /\ (op = "receive_resources" /\ arg <= 0) =>
          /\ state.resources_reserve = prev.resources_reserve
          /\ state.harvest_history = Append(prev.harvest_history, 0)
    /\ (op = "consume_resources" /\ arg <= 0) => state = prev

\* a negative amount was received by an agent holding resources and logged as 0
NegativeReceiveLogged ==
    /\ op = "receive_resources"
    /\ arg < 0
    /\ prev.resources_reserve > 0
    /\ state.resources_reserve = prev.resources_reserve
    /\ state.harvest_history = Append(prev.harvest_history, 0)

\* C29: for every concrete profile class and all total_resources >= 0 and
\* population_size >= 0, calculate_request returns an integer >= 1.
RequestAtLeastOne ==
    op = "calculate_request" =>
        /\ result.kind = "int"
        /\ result.value >= 1

\* the band negotiate_demand clamps to, hundredths: <<low, high>>
DemandBand(p) ==
    CASE p = "altruist" -> <<30, 70>>
      [] p = "egoist" -> <<50, 90>>
      [] p = "pragmatist" -> <<40, 70>>

\* C30: negotiate_demand returns a value inside the profile's band (altruist
\* [0.3, 0.7], egoist [0.5, 0.9], pragmatist [0.4, 0.7]) for every
\* partner_reputation and every negotiation_demand trait.
DemandInsideBand ==
    op = "negotiate_demand" =>
        /\ DemandBand(prev.agent_type)[1] <= result.value
        /\ result.value <= DemandBand(prev.agent_type)[2]

\* an agent whose trait plus adjustment lies above its band was held at the
\* band's upper end
DemandHeldAtUpperEnd ==
    /\ op = "negotiate_demand"
    /\ prev.negotiation_demand > DemandBand(prev.agent_type)[2] + 15
    /\ result.value = DemandBand(prev.agent_type)[2]

\* C31: restore_snapshot(take_snapshot(s)) equals s, and mutating the restored
\* state, nested lists included, changes neither s nor snapshot.state.
RestoredIsDetachedCopy ==
    /\ (op = "restore_snapshot" /\ ValueOf(heap, sim_state) = takenValue) =>
            ValueOf(heap, restored) = ValueOf(heap, sim_state)
    /\ (op \in {"append", "setitem"} /\ restored # 0 /\ arg[1] = restored) =>
            /\ ValueOf(heap, sim_state) = ValueOf(prevHeap, sim_state)
            /\ ValueOf(heap, snapshot.state) = ValueOf(prevHeap, snapshot.state)

\* C32: a logged entry keeps the value its record had when it was logged,
\* whatever the caller does to the record afterwards, and the entries are in
\* the order they were logged.
LoggedEntriesDetached ==
    /\ Len(daily) = Len(loggedValues)
    /\ \A i \in 1..Len(daily) : ValueOf(heap, daily[i]) = loggedValues[i]

\* C33: a Simulation with a negative num_days is rejected at construction time:
\* it never exists as a constructed object, so no step or run is made on it.
MalformedConfigRejected ==
    num_days < 0 => (op = "init" /\ result.kind = "raise")

ReputationFollowsOutcome ==
    op = "update_reputation" =>
        /\ arg = TRUE => state.reputation >= prev.reputation
        /\ arg = FALSE => state.reputation <= prev.reputation

\* the cooperation rate of the window after the last call, RepScale units
WindowRate ==
    (RepScale * CountTrue(state.cooperation_history)) \div Len(state.cooperation_history)

\* C35 amended: update_reputation moves the reputation towards the cooperation
\* rate of the updated window, whatever the outcome passed: not lower than
\* before when the rate is at least the old reputation, not higher when the
\* rate is at most the old reputation.
ReputationFollowsWindowRate ==
    op = "update_reputation" =>
        /\ WindowRate >= prev.reputation => state.reputation >= prev.reputation
        /\ WindowRate <= prev.reputation => state.reputation <= prev.reputation

\* a success that lowered the reputation: the window's rate was below it
SuccessLoweredReputation ==
    /\ op = "update_reputation"
    /\ arg = TRUE
    /\ WindowRate < prev.reputation
    /\ state.reputation < prev.reputation

\* the sum of a sequence of integers
RECURSIVE SumOf(_)
SumOf(s) == IF s = <<>> THEN 0 ELSE Head(s) + SumOf(Tail(s))

RunsIdentical ==
    /\ runA.agents = runB.agents
    /\ runA.env.resources = runB.env.resources

\* C38: negotiate never hands out more than the pool: for any two agents and
\* any resource_size S >= 0 the returned shares satisfy share_a >= 0,
\* share_b >= 0 and share_a + share_b <= S.
SharesWithinPool ==
    op = "negotiate" =>
        /\ result.share_a >= 0
        /\ result.share_b >= 0
        /\ result.share_a + result.share_b <= arg.resource_size

\* a negotiation over a non-empty pool in which both sides would accept the
\* other's demand, and whose shares stay within the pool
BothAcceptWithinPool ==
    /\ op = "negotiate"
    /\ arg.resource_size > 0
    /\ AcceptsA
    /\ AcceptsB
    /\ result.share_a + result.share_b <= arg.resource_size

\* C39: for every agent of the three profiles, built with defaults or produced
\* by reproduce after any number of generations, request_multiplier is in
\* [0, 2] and negotiation_demand, acceptance_threshold and greed_index are in
\* [0, 1].
TraitsInRange ==
    /\ 0 <= state.request_multiplier /\ state.request_multiplier <= 200
    /\ 0 <= state.negotiation_demand /\ state.negotiation_demand <= 100
    /\ 0 <= state.acceptance_threshold /\ state.acceptance_threshold <= 100
    /\ 0 <= state.greed_index /\ state.greed_index <= 100

\* C40: select_pair returns null when fewer than two agents are supplied;
\* otherwise it returns two distinct agents that are both alive.
PairIsAliveAndDistinct ==
    op = "select_pair" =>
        IF Len(agents) < 2
        THEN result = NoneResult
        ELSE /\ result.kind = "pair"
             /\ result.first.id # result.second.id
             /\ result.first.state.alive
             /\ result.second.state.alive

====
